---- MODULE Spec2Model ----
(***************************************************************************)
(* Model of app.py: the Flask handlers agregar, editar and eliminar over   *)
(* the barranco table (SQLAlchemy model Barranco) and the upload folder.   *)
(*                                                                         *)
(* Texts that the code parses or sanitises (metros_rapeles, the uploaded   *)
(* file's name) are sequences of one-character strings, so that split,     *)
(* strip, float and secure_filename are computed character by character.   *)
(* Names and the other plain fields are strings compared for equality.     *)
(***************************************************************************)
EXTENDS Integers, Sequences, FiniteSets, TLC

VARIABLES
    store,    \* the barranco table: a function from the ids present to rows
    files,    \* the names of the files in app.config["UPLOAD_FOLDER"]
    req,      \* the POST request being served one at a time, or NoReq
    resp,     \* the answer to the last request served one at a time
    slots     \* the requests in flight on concurrent worker threads

vars == <<store, files, req, resp, slots>>

\* ------------------------------------------------------------------ bounds

\* Ids a row can get in the model; agregar is not submitted past it.
MaxId == 2
\* Worker threads of the concurrent specification.
NumWorkers == 2

\* ------------------------------------------------------- character helpers

Digits == {"0", "1", "2", "3", "4", "5", "6", "7", "8", "9"}
Letters == {"a", "b", "c", "e", "g", "j", "n", "p", "x"}
Whitespace == {" "}

DigitValue(c) ==
    CASE c = "0" -> 0 [] c = "1" -> 1 [] c = "2" -> 2 [] c = "3" -> 3
      [] c = "4" -> 4 [] c = "5" -> 5 [] c = "6" -> 6 [] c = "7" -> 7
      [] c = "8" -> 8 [] c = "9" -> 9

\* str.strip(chars): drop leading and trailing characters of the set.
RECURSIVE LStrip(_, _)
LStrip(s, cs) ==
    IF s # <<>> /\ Head(s) \in cs THEN LStrip(Tail(s), cs) ELSE s

RECURSIVE RStrip(_, _)
RStrip(s, cs) ==
    IF s # <<>> /\ s[Len(s)] \in cs THEN RStrip(SubSeq(s, 1, Len(s) - 1), cs) ELSE s

Strip(s, cs) == RStrip(LStrip(s, cs), cs)

\* str.split(sep) for a one-character separator: every field, empty ones too.
RECURSIVE SplitOn(_, _, _, _)
SplitOn(s, seps, cur, acc) ==
    IF s = <<>> THEN Append(acc, cur)
    ELSE IF Head(s) \in seps THEN SplitOn(Tail(s), seps, <<>>, Append(acc, cur))
    ELSE SplitOn(Tail(s), seps, Append(cur, Head(s)), acc)

Split(s, seps) == SplitOn(s, seps, <<>>, <<>>)

NonEmpty(t) == t # <<>>

\* str.split() without argument: fields between runs of whitespace, no empty ones.
SplitWs(s) == SelectSeq(Split(s, Whitespace), NonEmpty)

\* sep.join(parts)
RECURSIVE Join(_, _)
Join(parts, sep) ==
    IF parts = <<>> THEN <<>>
    ELSE IF Len(parts) = 1 THEN parts[1]
    ELSE parts[1] \o <<sep>> \o Join(Tail(parts), sep)

EndsWith(s, suffix) ==
    /\ Len(s) >= Len(suffix)
    /\ SubSeq(s, Len(s) - Len(suffix) + 1, Len(s)) = suffix

\* ------------------------------------------------- float(), line 82 and 130

\* A token float() accepts, for the characters of the model: digits with at
\* most one decimal point and at least one digit.
IsFloat(tok) ==
    /\ \A i \in 1..Len(tok) : tok[i] \in Digits \cup {"."}
    /\ Cardinality({i \in 1..Len(tok) : tok[i] = "."}) <= 1
    /\ \E i \in 1..Len(tok) : tok[i] \in Digits

RECURSIVE DigitsValue(_, _)
DigitsValue(s, acc) ==
    IF s = <<>> THEN acc ELSE DigitsValue(Tail(s), 10 * acc + DigitValue(Head(s)))

IsDigit(c) == c \in Digits

\* A decimal m * 10^-e without trailing zeros, so that "2", "2." and "2.0"
\* are one value as they are one float.
RECURSIVE Normal(_, _)
Normal(m, e) ==
    IF e > 0 /\ m % 10 = 0 THEN Normal(m \div 10, e - 1) ELSE <<m, e>>

Float(tok) ==
    LET parts == Split(tok, {"."})
        frac == IF Len(parts) = 2 THEN parts[2] ELSE <<>>
    IN  Normal(DigitsValue(SelectSeq(tok, IsDigit), 0), Len(frac))

\* [float(x.strip()) for x in text.split(",") if x.strip() != ""], with the
\* ValueError of the first token float() refuses.
ParseMetros(text) ==
    LET fields == Split(text, {","})
        stripped == [i \in 1..Len(fields) |-> Strip(fields[i], Whitespace)]
        kept == SelectSeq(stripped, NonEmpty)
    IN  IF \A i \in 1..Len(kept) : IsFloat(kept[i])
        THEN [ok |-> TRUE, list |-> [i \in 1..Len(kept) |-> Float(kept[i])]]
        ELSE [ok |-> FALSE, list |-> <<>>]

\* ------------------------------------- werkzeug secure_filename, line 103

LowerChar(c) ==
    CASE c = "P" -> "p" [] c = "N" -> "n" [] c = "G" -> "g" [] OTHER -> c

Lower(s) == [i \in 1..Len(s) |-> LowerChar(s[i])]

PathSeps == {"/"}

ReplaceSeps(s) == [i \in 1..Len(s) |-> IF s[i] \in PathSeps THEN " " ELSE s[i]]

SafeChars == Letters \cup {"P", "N", "G"} \cup Digits \cup {"_", ".", "-"}

IsSafeChar(c) == c \in SafeChars

SecureFilename(name) ==
    Strip(SelectSeq(Join(SplitWs(ReplaceSeps(name)), "_"), IsSafeChar), {".", "_"})

\* ------------------------------------------ BarrancoForm, lines 49 to 62

ExtPng == <<".", "p", "n", "g">>
ExtJpg == <<".", "j", "p", "g">>
ExtJpeg == <<".", "j", "p", "e", "g">>

\* FileAllowed(["jpg", "jpeg", "png"]): no file passes, a file passes when
\* its lower-cased name ends with a dot and one of the extensions.
FileAllowed(name) ==
    \/ name = <<>>
    \/ \E ext \in {ExtJpg, ExtJpeg, ExtPng} : EndsWith(Lower(name), ext)

\* DataRequired on a text of characters: something is left after strip().
DataRequiredText(t) == Strip(t, Whitespace) # <<>>

\* DataRequired on a string field of the model's alphabet of names.
DataRequiredStr(s) == s # ""

\* DataRequired, then NumberRange(min=1), on the IntegerField.
NumRapelesValid(n) == n # 0 /\ n >= 1

Dificultades == {"Baja", "Media", "Alta"}
Volados == {"Si", "No"}

\* form.validate_on_submit() for a POST carrying the form f.
ValidateOnSubmit(f) ==
    /\ DataRequiredStr(f.nombre)
    /\ DataRequiredStr(f.ubicacion)
    /\ f.dificultad \in Dificultades
    /\ NumRapelesValid(f.num_rapeles)
    /\ DataRequiredText(f.metros_rapeles)
    /\ f.volado \in Volados
    /\ FileAllowed(f.imagen)

\* --------------------------------------------------------- request inputs

Nombres == {"", "rio", "Rio"}
Ubicaciones == {"Teno"}
NumRapeles == 0..2
Comentarios == {""}

\* "10, 15.5"   " 7 ,"   "7.0"   "1x"   ","   " "
MetrosTexts ==
    { <<"1", "0", ",", " ", "1", "5", ".", "5">>,
      <<" ", "7", " ", ",">>,
      <<"7", ".", "0">>,
      <<"1", "x">>,
      <<",">>,
      <<" ">> }

\* no file   "a.png"   "../b c.PNG"   "a.exe"
NoFile == <<>>
Uploads ==
    { NoFile,
      <<"a", ".", "p", "n", "g">>,
      <<".", ".", "/", "b", " ", "c", ".", "P", "N", "G">>,
      <<"a", ".", "e", "x", "e">> }

Forms ==
    [ nombre : Nombres, ubicacion : Ubicaciones, dificultad : {"Media"},
      num_rapeles : NumRapeles, metros_rapeles : MetrosTexts, volado : {"No"},
      imagen : Uploads, comentarios : Comentarios ]

\* ------------------------------------------ the barranco table, lines 31-43

\* imagen is nullable: the NULL of a row without image.
NoImagen == <<>>

\* PorNombre with the filter on the wrong column.
PorUbicacion(st, n) == {i \in DOMAIN st : st[i].ubicacion = n}

\* Barranco.query.filter_by(nombre=n): the ids of the rows of that name.
PorNombre(st, n) == {i \in DOMAIN st : st[i].nombre = n}

\* Barranco.query.filter_by(nombre=n).first() is a row.
NombreExiste(st, n) == PorNombre(st, n) # {}

\* NewId as the number of rows plus one.
NewIdPorConteo(st) == Cardinality(DOMAIN st) + 1

\* Integer primary key: SQLite gives a new row the largest rowid plus one.
NewId(st) ==
    IF DOMAIN st = {} THEN 1
    ELSE (CHOOSE i \in DOMAIN st : \A j \in DOMAIN st : j <= i) + 1

\* UniqueOk of a column declared without unique=True.
UniqueOff(st, id, n) == TRUE

\* unique=True on nombre: the row id may carry the name n.
UniqueOk(st, id, n) == PorNombre(st, n) \subseteq {id}

PutRow(st, id, row) ==
    [i \in DOMAIN st \cup {id} |-> IF i = id THEN row ELSE st[i]]

\* db.session.add(row); db.session.commit()
InsertRow(st, row) ==
    IF UniqueOk(st, NewId(st), row.nombre)
    THEN [status |-> "ok", store |-> PutRow(st, NewId(st), row)]
    ELSE [status |-> "IntegrityError", store |-> st]

\* db.session.commit() of a modified row
UpdateRow(st, id, row) ==
    IF UniqueOk(st, id, row.nombre)
    THEN [status |-> "ok", store |-> PutRow(st, id, row)]
    ELSE [status |-> "IntegrityError", store |-> st]

\* DeleteRow with the delete filtered by id >= instead of id ==.
DeleteRowAndAbove(st, id) == [i \in {j \in DOMAIN st : j < id} |-> st[i]]

\* db.session.delete(row); db.session.commit()
DeleteRow(st, id) == [i \in DOMAIN st \ {id} |-> st[i]]

\* ----------------------------------------------------- agregar, lines 71-113

\* CountMatches with the comparison > in place of !=.
CountAtMost(list, n) == Len(list) <= n

\* len(metros_list) != form.num_rapeles.data is false
CountMatches(list, n) == Len(list) = n

\* The checks of agregar in their order: the status of the flash, or "ok".
AgregarCheck(st, f) ==
    IF ~ValidateOnSubmit(f) THEN "Invalid"
    ELSE IF NombreExiste(st, f.nombre) THEN "DuplicateName"
    ELSE IF ~ParseMetros(f.metros_rapeles).ok THEN "InvalidNumberList"
    ELSE IF ~CountMatches(ParseMetros(f.metros_rapeles).list, f.num_rapeles)
         THEN "CountMismatch"
    ELSE "ok"

\* nuevo_barranco, with imagen set when a file came
NuevoBarranco(f) ==
    [ nombre |-> f.nombre, ubicacion |-> f.ubicacion, dificultad |-> f.dificultad,
      num_rapeles |-> f.num_rapeles,
      metros_rapeles |-> ParseMetros(f.metros_rapeles).list,
      volado |-> f.volado, comentarios |-> f.comentarios,
      imagen |-> IF f.imagen # NoFile THEN SecureFilename(f.imagen) ELSE NoImagen ]

\* Guardar with the file saved under the name the client sent.
GuardarSinSanear(fs, f) ==
    IF f.imagen # NoFile THEN fs \cup {f.imagen} ELSE fs

\* form.imagen.data.save(image_path) when a file came
Guardar(fs, f) ==
    IF f.imagen # NoFile THEN fs \cup {SecureFilename(f.imagen)} ELSE fs

\* ArchivosTras with the save ahead of the checks.
ArchivosSiempre(fs, f, chk) == Guardar(fs, f)

\* The upload folder after a request whose checks ended chk.
ArchivosTras(fs, f, chk) == IF chk = "ok" THEN Guardar(fs, f) ELSE fs

\* ------------------------------------------------------ editar, lines 116-159

\* NombreDuplicadoEditar without the comparison with the row's own name.
NombreDuplicadoSinExcluir(st, id, n) == NombreExiste(st, n)

\* form.nombre.data != barranco.nombre and filter_by(nombre=...).first()
NombreDuplicadoEditar(st, id, n) == n # st[id].nombre /\ NombreExiste(st, n)

\* EditarCheck with the parse and the count ahead of the name check.
EditarCheckCuentaPrimero(st, id, f) ==
    IF ~ValidateOnSubmit(f) THEN "Invalid"
    ELSE IF ~ParseMetros(f.metros_rapeles).ok THEN "InvalidNumberList"
    ELSE IF ~CountMatches(ParseMetros(f.metros_rapeles).list, f.num_rapeles)
         THEN "CountMismatch"
    ELSE IF NombreDuplicadoEditar(st, id, f.nombre) THEN "DuplicateName"
    ELSE "ok"

\* The checks of editar in their order: the status of the flash, or "ok".
EditarCheck(st, id, f) ==
    IF ~ValidateOnSubmit(f) THEN "Invalid"
    ELSE IF NombreDuplicadoEditar(st, id, f.nombre) THEN "DuplicateName"
    ELSE IF ~ParseMetros(f.metros_rapeles).ok THEN "InvalidNumberList"
    ELSE IF ~CountMatches(ParseMetros(f.metros_rapeles).list, f.num_rapeles)
         THEN "CountMismatch"
    ELSE "ok"

\* ImagenEditada with imagen assigned whether or not a file came.
ImagenReemplazada(row, f) ==
    IF f.imagen # NoFile THEN SecureFilename(f.imagen) ELSE NoImagen

\* form.imagen.data at line 149 is not a file but true: the form was filled
\* from obj=barranco (line 119), and for a POST without a file the FileField of
\* current Flask-WTF leaves the value taken from the row, a str, in place
\* (older releases overwrite it with the empty upload). Line 150 then reads
\* .filename of a str and raises before the commit. The library's release is
\* not fixed by the repository, so Editar allows both outcomes.
ImagenDataEsStr(row, f) == f.imagen = NoFile /\ row.imagen # NoImagen

\* barranco.imagen after the update: the new file's name, else what it was
ImagenEditada(row, f) ==
    IF f.imagen # NoFile THEN SecureFilename(f.imagen) ELSE row.imagen

\* the row after lines 140 to 153
Actualizar(row, f) ==
    [ nombre |-> f.nombre, ubicacion |-> f.ubicacion, dificultad |-> f.dificultad,
      num_rapeles |-> f.num_rapeles,
      metros_rapeles |-> ParseMetros(f.metros_rapeles).list,
      volado |-> f.volado, comentarios |-> f.comentarios,
      imagen |-> ImagenEditada(row, f) ]

\* ------------------------------------------- requests served one at a time

BlankForm ==
    [ nombre |-> "", ubicacion |-> "", dificultad |-> "", num_rapeles |-> 0,
      metros_rapeles |-> <<>>, volado |-> "", imagen |-> NoFile, comentarios |-> "" ]

NoReq == [op |-> "none", id |-> 0, form |-> BlankForm]
NoResp == "none"

Requests ==
    [op : {"agregar"}, id : {0}, form : Forms]
        \cup [op : {"editar"}, id : 1..MaxId, form : Forms]
        \cup [op : {"eliminar"}, id : 1..MaxId, form : {BlankForm}]

IdleSlot == [pc |-> "idle", form |-> BlankForm, status |-> NoResp]

Init ==
    /\ store = <<>>
    /\ files = {}
    /\ req = NoReq
    /\ resp = NoResp
    /\ slots = [w \in 1..NumWorkers |-> IdleSlot]

\* A POST arrives at one of the three routes.
Recibir ==
    /\ req = NoReq
    /\ \E r \in Requests :
        /\ r.op = "agregar" => NewId(store) <= MaxId
        /\ req' = r
    /\ resp' = NoResp
    /\ UNCHANGED <<store, files, slots>>

Pending(op) == req.op = op /\ resp = NoResp

Agregar ==
    /\ Pending("agregar")
    /\ LET f == req.form
           chk == AgregarCheck(store, f)
           ins == InsertRow(store, NuevoBarranco(f))
       IN  /\ files' = ArchivosTras(files, f, chk)
           /\ IF chk = "ok"
              THEN store' = ins.store /\ resp' = ins.status
              ELSE store' = store /\ resp' = chk
    /\ UNCHANGED <<req, slots>>

Editar ==
    /\ Pending("editar")
    /\ IF req.id \notin DOMAIN store
       THEN resp' = "NotFound" /\ UNCHANGED <<store, files>>
       ELSE LET f == req.form
                chk == EditarCheck(store, req.id, f)
                upd == UpdateRow(store, req.id, Actualizar(store[req.id], f))
            IN  \/ /\ files' = ArchivosTras(files, f, chk)
                   /\ IF chk = "ok"
                      THEN store' = upd.store /\ resp' = upd.status
                      ELSE store' = store /\ resp' = chk
                \/ /\ chk = "ok"
                   /\ ImagenDataEsStr(store[req.id], f)
                   /\ resp' = "InternalError"
                   /\ UNCHANGED <<store, files>>
    /\ UNCHANGED <<req, slots>>

Eliminar ==
    /\ Pending("eliminar")
    /\ IF req.id \notin DOMAIN store
       THEN resp' = "NotFound" /\ store' = store
       ELSE resp' = "ok" /\ store' = DeleteRow(store, req.id)
    /\ UNCHANGED <<files, req, slots>>

\* The response has gone out; the next request can be taken.
Responder ==
    /\ req # NoReq
    /\ resp # NoResp
    /\ req' = NoReq
    /\ resp' = NoResp
    /\ UNCHANGED <<store, files, slots>>

Next == Recibir \/ Agregar \/ Editar \/ Eliminar \/ Responder

Spec == Init /\ [][Next]_vars

\* ------------------------------------- agregar on concurrent worker threads
\* The development server serves each request on a thread of its own, with a
\* session of its own: two runs of agregar interleave at the query of line 76,
\* the save of line 105 and the commit of line 109.

ConcurrentForms ==
    [ nombre : {"rio", "Rio"}, ubicacion : Ubicaciones, dificultad : {"Media"},
      num_rapeles : {1, 2}, metros_rapeles : {<<" ", "7", " ", ",">>},
      volado : {"No"}, imagen : {NoFile, <<"a", ".", "p", "n", "g">>},
      comentarios : Comentarios ]

SetSlot(w, pc, status) ==
    slots' = [slots EXCEPT ![w] = [pc |-> pc, form |-> slots[w].form, status |-> status]]

\* A POST to /agregar is handed to the worker w.
AgregarRecibe(w) ==
    /\ slots[w].pc = "idle"
    /\ \E f \in ConcurrentForms :
        slots' = [slots EXCEPT ![w] = [pc |-> "recv", form |-> f, status |-> NoResp]]
    /\ UNCHANGED <<store, files, req, resp>>

\* Lines 74 to 89: validation, the query by name, the parse, the count.
AgregarVerifica(w) ==
    /\ slots[w].pc = "recv"
    /\ LET chk == AgregarCheck(store, slots[w].form)
       IN  IF chk = "ok" THEN SetSlot(w, "checked", NoResp) ELSE SetSlot(w, "done", chk)
    /\ UNCHANGED <<store, files, req, resp>>

\* Lines 102 to 106: the file is saved.
AgregarGuarda(w) ==
    /\ slots[w].pc = "checked"
    /\ files' = Guardar(files, slots[w].form)
    /\ SetSlot(w, "saved", NoResp)
    /\ UNCHANGED <<store, req, resp>>

\* Lines 108 and 109: the insert and the commit.
AgregarCommit(w) ==
    /\ slots[w].pc = "saved"
    /\ LET ins == InsertRow(store, NuevoBarranco(slots[w].form))
       IN  /\ store' = ins.store
           /\ SetSlot(w, "done", ins.status)
    /\ UNCHANGED <<files, req, resp>>

Recibe == \E w \in 1..NumWorkers : AgregarRecibe(w)
Verifica == \E w \in 1..NumWorkers : AgregarVerifica(w)
Guarda == \E w \in 1..NumWorkers : AgregarGuarda(w)
Commit == \E w \in 1..NumWorkers : AgregarCommit(w)

NextConc == Recibe \/ Verifica \/ Guarda \/ Commit

SpecConc == Init /\ [][NextConc]_vars

\* ================================================================ properties

\* The step in which the request in req is served: its response appears.
Served == resp = NoResp /\ resp' # NoResp

\* The lengths text of the form f parses and has as many numbers as announced.
LengthsMatch(f) ==
    ParseMetros(f.metros_rapeles).ok
        /\ Len(ParseMetros(f.metros_rapeles).list) = f.num_rapeles

LengthsDiffer(f) ==
    ParseMetros(f.metros_rapeles).ok
        /\ Len(ParseMetros(f.metros_rapeles).list) # f.num_rapeles

\* A row other than the row id carries the name n (id 0 is no row).
HeldByOther(id, n) == \E j \in DOMAIN store : j # id /\ store[j].nombre = n

\* The rows of st other than the row id are the rows they are in store.
OthersUnchanged(st, id) ==
    \A j \in DOMAIN store \ {id} : j \in DOMAIN st /\ st[j] = store[j]

\* C1: served one at a time, agregar, editar and eliminar never leave two
\* rows with the same name (the names compared exactly, case included).
C1_NombresUnicos ==
    \A i, j \in DOMAIN store : i # j => store[i].nombre # store[j].nombre

\* C1 witness: two rows are stored, their names differing in case only, and a
\* request that would have duplicated a name has just been refused.
C1_Witness ==
    /\ resp = "DuplicateName"
    /\ \E i, j \in DOMAIN store : store[i].nombre = "rio" /\ store[j].nombre = "Rio"

\* C2: every stored row has as many lengths as num_rapeles says, at least one.
C2_CuentaCoincide ==
    \A i \in DOMAIN store :
        Len(store[i].metros_rapeles) = store[i].num_rapeles /\ store[i].num_rapeles >= 1

\* C2 witness: an update has just stored a row of two lengths.
C2_Witness ==
    /\ req.op = "editar" /\ resp = "ok"
    /\ store[req.id].num_rapeles = 2
    /\ Len(store[req.id].metros_rapeles) = 2

\* C3 as stated: a create or update whose parsed lengths differ in number
\* from num_rapeles fails with CountMismatch and no other error, and leaves
\* the table as it was, also when another row holds the submitted name.
C3_SiempreCountMismatch ==
    [][ ( /\ Served
          /\ req.op \in {"agregar", "editar"}
          /\ req.op = "editar" => req.id \in DOMAIN store
          /\ ValidateOnSubmit(req.form)
          /\ LengthsDiffer(req.form) )
        => (resp' = "CountMismatch" /\ store' = store) ]_vars

\* C3 amended: such a request leaves the table as it was, and fails with
\* CountMismatch unless another row holds the submitted name, when it fails
\* with DuplicateName.
C3_CountMismatchSalvoDuplicado ==
    [][ ( /\ Served
          /\ req.op \in {"agregar", "editar"}
          /\ req.op = "editar" => req.id \in DOMAIN store
          /\ ValidateOnSubmit(req.form)
          /\ LengthsDiffer(req.form) )
        => ( /\ store' = store
             /\ resp' = IF HeldByOther(req.id, req.form.nombre)
                        THEN "DuplicateName" ELSE "CountMismatch" ) ]_vars

\* C3 witness: a request with a wrong count and a name another row holds has
\* been refused as a duplicate.
C3_Witness ==
    /\ req.op \in {"agregar", "editar"}
    /\ resp = "DuplicateName"
    /\ ValidateOnSubmit(req.form)
    /\ LengthsDiffer(req.form)
    /\ HeldByOther(req.id, req.form.nombre)

\* The workers whose request carries the name n and is free of every fault
\* but, possibly, the name being taken.
Carrying(n) ==
    {w \in 1..NumWorkers :
        /\ slots[w].pc # "idle"
        /\ slots[w].form.nombre = n
        /\ ValidateOnSubmit(slots[w].form)
        /\ LengthsMatch(slots[w].form)}

Succeeded(n) == {w \in Carrying(n) : slots[w].status = "ok"}

\* C4: of the create requests that carry one name, run in any order or
\* interleaved between the query by name and the commit, at most one
\* succeeds; once all have ended exactly one has succeeded and each other one
\* has failed with DuplicateName or with the table's unique constraint; the
\* table never holds two rows of that name.
C4_UnoSoloGana ==
    \A n \in {"rio", "Rio"} :
        /\ Cardinality(Succeeded(n)) <= 1
        /\ Cardinality({i \in DOMAIN store : store[i].nombre = n}) <= 1
        /\ (Carrying(n) # {} /\ \A w \in Carrying(n) : slots[w].pc = "done")
            => /\ Cardinality(Succeeded(n)) = 1
               /\ \A w \in Carrying(n) \ Succeeded(n) :
                    slots[w].status \in {"DuplicateName", "IntegrityError"}

\* C4 witness: two creates of one name both passed the query by name; one
\* committed and the other was stopped by the unique constraint.
C4_Witness ==
    \E v, w \in 1..NumWorkers :
        /\ v # w
        /\ slots[v].form.nombre = slots[w].form.nombre
        /\ slots[v].pc = "done" /\ slots[v].status = "ok"
        /\ slots[w].pc = "done" /\ slots[w].status = "IntegrityError"

\* C5: an update of a stored row that passes the form's validation fails with
\* DuplicateName exactly when the submitted name differs from the row's name
\* and another row holds it; the row's own name never does.
C5_DuplicadoSoloSiCambia ==
    [][ ( /\ Served
          /\ req.op = "editar"
          /\ req.id \in DOMAIN store
          /\ ValidateOnSubmit(req.form) )
        => ( resp' = "DuplicateName"
               <=> ( /\ req.form.nombre # store[req.id].nombre
                     /\ HeldByOther(req.id, req.form.nombre) ) ) ]_vars

\* C5 witness: an update that kept the row's name went through while another
\* row was stored.
C5_Witness ==
    /\ req.op = "editar" /\ resp = "ok"
    /\ store[req.id].nombre = req.form.nombre
    /\ Cardinality(DOMAIN store) = 2

\* C6: eliminar of an id not in the table answers NotFound and leaves the
\* table as it was; of an id in the table it removes that row and no other.
C6_EliminarExacto ==
    [][ (Served /\ req.op = "eliminar")
        => IF req.id \in DOMAIN store
           THEN /\ resp' = "ok"
                /\ DOMAIN store' = DOMAIN store \ {req.id}
                /\ OthersUnchanged(store', req.id)
           ELSE resp' = "NotFound" /\ store' = store ]_vars

\* C6 witness: a row has been deleted and another row is still stored.
C6_Witness ==
    /\ req.op = "eliminar" /\ resp = "ok"
    /\ req.id \notin DOMAIN store
    /\ DOMAIN store # {}

\* C7: no update changes the ids of the table; a successful update without a
\* file keeps the row's imagen, one with a file sets it to the sanitised name
\* of the file, which has no path separator and no blank.
C7_ImagenTrasEditar ==
    [][ (Served /\ req.op = "editar")
        => /\ DOMAIN store' = DOMAIN store
           /\ resp' = "ok" =>
                /\ store'[req.id].imagen =
                     IF req.form.imagen = NoFile THEN store[req.id].imagen
                     ELSE SecureFilename(req.form.imagen)
                /\ \A k \in 1..Len(store'[req.id].imagen) :
                     store'[req.id].imagen[k] \notin PathSeps \cup Whitespace ]_vars

\* C7 witness: an update that brought no file has succeeded.
C7_Witness ==
    /\ req.op = "editar" /\ resp = "ok"
    /\ req.form.imagen = NoFile

\* C8: the imagen of every stored row that has one is a file of the upload
\* folder, and no step removes a file from the folder.
C8_ImagenEnCarpeta ==
    /\ [](\A i \in DOMAIN store :
            store[i].imagen # NoImagen => store[i].imagen \in files)
    /\ [][files \subseteq files']_vars

\* C8 witness: a row with an image has been deleted, its file is still in the
\* folder, and another row has an image.
C8_Witness ==
    /\ req.op = "eliminar" /\ resp = "ok"
    /\ \E i \in DOMAIN store : store[i].imagen # NoImagen
    /\ \E x \in files : \A i \in DOMAIN store : store[i].imagen # x

\* C9: a create that passes the form's validation, with a name no row holds
\* and as many lengths as announced, succeeds: the table gains one row under
\* an id it did not have, the other rows stay as they were, and the new row
\* reads back with the submitted values.
C9_AgregarCrea ==
    [][ ( /\ Served
          /\ req.op = "agregar"
          /\ ValidateOnSubmit(req.form)
          /\ ~HeldByOther(0, req.form.nombre)
          /\ LengthsMatch(req.form) )
        => /\ resp' = "ok"
           /\ \E id \in DOMAIN store' \ DOMAIN store :
                /\ DOMAIN store' = DOMAIN store \cup {id}
                /\ OthersUnchanged(store', id)
                /\ store'[id].nombre = req.form.nombre
                /\ store'[id].ubicacion = req.form.ubicacion
                /\ store'[id].dificultad = req.form.dificultad
                /\ store'[id].num_rapeles = req.form.num_rapeles
                /\ store'[id].metros_rapeles = ParseMetros(req.form.metros_rapeles).list
                /\ store'[id].volado = req.form.volado
                /\ store'[id].comentarios = req.form.comentarios
                /\ store'[id].imagen =
                     IF req.form.imagen = NoFile THEN NoImagen
                     ELSE SecureFilename(req.form.imagen) ]_vars

\* C9 witness: a create has succeeded on a table that held a row already.
C9_Witness ==
    /\ req.op = "agregar" /\ resp = "ok"
    /\ Cardinality(DOMAIN store) = 2

Rejections == {"Invalid", "DuplicateName", "InvalidNumberList", "CountMismatch"}

\* C10: a create or update refused by the form's validation, the name check,
\* the parse or the count check changes neither the table nor the upload
\* folder, and the folder changes only in a request that passed all four.
C10_GuardarTrasVerificar ==
    [][ (Served /\ req.op \in {"agregar", "editar"})
        => /\ resp' \in Rejections => (store' = store /\ files' = files)
           /\ files' # files =>
                /\ ValidateOnSubmit(req.form)
                /\ ~HeldByOther(req.id, req.form.nombre)
                /\ LengthsMatch(req.form) ]_vars

\* C10 witness: a request that brought a file not yet in the folder was
\* refused by the count check.
C10_Witness ==
    /\ req.op \in {"agregar", "editar"}
    /\ resp = "CountMismatch"
    /\ req.form.imagen # NoFile
    /\ SecureFilename(req.form.imagen) \notin files

====
